---------------------------- MODULE Spec2Model ----------------------------
(***************************************************************************)
(* A model of lzokay-rs: the LZO1X encoder (src/src/compress.rs) and the   *)
(* decoder (src/src/decompress.rs).                                        *)
(*                                                                         *)
(* Byte buffers are sequences of integers 0..255 (Rust index i is TLA+     *)
(* index i+1).  The large zero-initialised tables of Dict are kept sparse: *)
(* an array is a record [d |-> default, m |-> entries written so far].     *)
(***************************************************************************)
EXTENDS Integers, Sequences, FiniteSets, TLC

(***************************************************************************)
(* Program constants                                                       *)
(***************************************************************************)
HASH_SIZE == 16384
MAX_DIST == 49151
MAX_MATCH_LEN == 2048
BUF_SIZE == MAX_DIST + MAX_MATCH_LEN
MAX_MATCH_TABLE == 34
BUF_GUARD == BUF_SIZE + MAX_MATCH_LEN + 1
M1_MAX_OFFSET == 1024
M2_MAX_OFFSET == 2048
M3_MAX_OFFSET == 16384
M4_BASE_OFFSET == 16384
M2_MIN_LEN == 3
M2_MAX_LEN == 8
M3_MAX_LEN == 33
M4_MAX_LEN == 9
M3_MARKER == 32
M4_MARKER == 16
U16_MAX == 65535
\* the largest literal run the first byte of a stream can carry (17 + len)
PRIME_MAX_LIT == 238

(***************************************************************************)
(* Bounds of the model                                                     *)
(***************************************************************************)
\* longest source drawn from the small alphabet
MaxLen == 6
\* largest undersized dst capacity tried by the encoder
MaxCap == 10
\* longest byte string handed to the decoder directly
MaxDecLen == 4
\* longest source of the call that leaves the shared Dict behind
MaxDictLen == 4
\* the length of a dst large enough for every decoder input tried
MaxDecDst == 600
MaxRun == 600

\* the alphabet of the enumerated sources
SrcBytes == {0, 1, 2}
\* the bytes of the enumerated decoder inputs: literal/M1 opcodes and the
\* zero marker (0, 1), the terminator opcode (17), a priming byte that is
\* also an M4 opcode of length 4 (18), an M3 opcode (32), an M2 opcode (64)
DecBytes == {0, 1, 17, 18, 32, 64}

(***************************************************************************)
(* Bit arithmetic on naturals                                              *)
(***************************************************************************)
RECURSIVE BitXor(_, _)
BitXor(a, b) ==
    IF a = 0 THEN b
    ELSE IF b = 0 THEN a
    ELSE (((a % 2) + (b % 2)) % 2) + 2 * BitXor(a \div 2, b \div 2)

RECURSIVE BitOr(_, _)
BitOr(a, b) ==
    IF a = 0 THEN b
    ELSE IF b = 0 THEN a
    ELSE (IF a % 2 = 1 \/ b % 2 = 1 THEN 1 ELSE 0) + 2 * BitOr(a \div 2, b \div 2)

RECURSIVE BitAnd(_, _)
BitAnd(a, b) ==
    IF a = 0 \/ b = 0 THEN 0
    ELSE (IF a % 2 = 1 /\ b % 2 = 1 THEN 1 ELSE 0) + 2 * BitAnd(a \div 2, b \div 2)

Min(a, b) == IF a < b THEN a ELSE b

(***************************************************************************)
(* Sparse arrays                                                           *)
(***************************************************************************)
Fill(v) == [d |-> v, m |-> << >>]
Get(a, i) == IF i \in DOMAIN a.m THEN a.m[i] ELSE a.d
Put(a, i, v) == [a EXCEPT !.m = (i :> v) @@ a.m]

\* a[start .. start+Len(s)-1] := s
PutSlice(a, start, s) ==
    LET R == start..(start + Len(s) - 1)
    IN  [a EXCEPT !.m = [i \in R \cup DOMAIN a.m |->
                           IF i \in R THEN s[i - start + 1] ELSE a.m[i]]]

\* a[start .. end-1] := v
PutFill(a, start, end, v) ==
    LET R == start..(end - 1)
    IN  [a EXCEPT !.m = [i \in R \cup DOMAIN a.m |->
                           IF i \in R THEN v ELSE a.m[i]]]

(***************************************************************************)
(* Dict: Match3, Match2 and the window buffer                              *)
(***************************************************************************)
\* Dict::new / Dict::new_const: every table zeroed
FreshDict ==
    [m3_head |-> Fill(0), m3_chain_sz |-> Fill(0), m3_chain |-> Fill(0),
     m3_best_len |-> Fill(0), m2_head |-> Fill(0), buffer |-> Fill(0)]

\* State::new
NewState ==
    [inp |-> 0, wind_sz |-> 0, wind_b |-> 0, wind_e |-> 0,
     cycle1_countdown |-> 0, bufp |-> 0, buf_sz |-> 0]

\* Match3::make_key on buffer[pos..].  The code multiplies in u32 with wrap
\* and keeps bits 5..18 of the product; those bits are the product modulo
\* 2^19, which is computed here in two halves of mix to stay in range.
Match3MakeKey(buffer, pos) ==
    LET a == Get(buffer, pos)
        b == Get(buffer, pos + 1)
        c == Get(buffer, pos + 2)
        mix == BitXor(BitXor(a * 32, b) * 32, c)
        lo == mix % 512
        hi == mix \div 512
        prod19 == ((40799 * lo) + (((40799 * hi) % 1024) * 512)) % 524288
    IN  (prod19 \div 32) % 16384

\* Match3::get_head
Match3GetHead(d, key) ==
    IF Get(d.m3_chain_sz, key) = 0 THEN U16_MAX ELSE Get(d.m3_head, key)

\* Match3::init
Match3Init(d) == [d EXCEPT !.m3_chain_sz = Fill(0)]

\* Match3::remove
Match3Remove(d, pos) ==
    LET key == Match3MakeKey(d.buffer, pos)
        sz == Get(d.m3_chain_sz, key)
    IN  [d EXCEPT !.m3_chain_sz = Put(@, key, IF sz = 0 THEN 0 ELSE sz - 1)]

\* Match3::advance: returns the dictionary, the previous head and the
\* bounded chain length
Match3Advance(d, st) ==
    LET key == Match3MakeKey(d.buffer, st.wind_b)
        head == Match3GetHead(d, key)
        sz == Get(d.m3_chain_sz, key)
    IN  [d |-> [d EXCEPT !.m3_chain = Put(@, st.wind_b, head),
                         !.m3_chain_sz = Put(@, key, (sz + 1) % 65536),
                         !.m3_head = Put(@, key, st.wind_b % 65536)],
         head |-> head,
         count |-> IF sz > MAX_MATCH_LEN THEN MAX_MATCH_LEN ELSE sz]

\* Match3::skip_advance
Match3SkipAdvance(d, st) ==
    LET key == Match3MakeKey(d.buffer, st.wind_b)
        head == Match3GetHead(d, key)
        sz == Get(d.m3_chain_sz, key)
    IN  [d EXCEPT !.m3_chain = Put(@, st.wind_b, head),
                  !.m3_head = Put(@, key, st.wind_b % 65536),
                  !.m3_best_len = Put(@, st.wind_b, (MAX_MATCH_LEN + 1) % 65536),
                  !.m3_chain_sz = Put(@, key, (sz + 1) % 65536)]

\* Match2::make_key on buffer[pos..]: bytes[0] ^ (bytes[1] << 8)
Match2MakeKey(buffer, pos) ==
    BitXor(Get(buffer, pos), Get(buffer, pos + 1) * 256)

\* Match2::init that leaves the heads of the previous call in place
Match2InitKeep(d) == d

\* Match2::init
Match2Init(d) == [d EXCEPT !.m2_head = Fill(U16_MAX)]

\* Match2::add
Match2Add(d, pos) ==
    [d EXCEPT !.m2_head = Put(@, Match2MakeKey(d.buffer, pos), pos)]

\* Match2::remove
Match2Remove(d, pos) ==
    LET key == Match2MakeKey(d.buffer, pos)
    IN  IF Get(d.m2_head, key) = pos
        THEN [d EXCEPT !.m2_head = Put(@, key, U16_MAX)]
        ELSE d

\* Match2::search: m carries lb_pos, lb_len and best_pos
Match2Search(d, st, m) ==
    LET pos == Get(d.m2_head, Match2MakeKey(d.buffer, st.wind_b))
    IN  IF pos = U16_MAX
        THEN [found |-> FALSE, lb_pos |-> m.lb_pos, lb_len |-> m.lb_len,
              best_pos |-> m.best_pos]
        ELSE [found |-> TRUE,
              lb_pos |-> IF m.lb_len < 2 THEN pos ELSE m.lb_pos,
              lb_len |-> IF m.lb_len < 2 THEN 2 ELSE m.lb_len,
              best_pos |-> IF m.best_pos[2] = 0
                           THEN [m.best_pos EXCEPT ![2] = pos + 1]
                           ELSE m.best_pos]

\* Dict::init: c is [d |-> Dict, st |-> State]
DictInit(d0, st0, s) ==
    LET d1 == Match2Init(Match3Init(d0))
        wsz == Min(Len(s), MAX_MATCH_LEN)
        d2 == [d1 EXCEPT !.buffer = PutSlice(@, 0, SubSeq(s, 1, wsz))]
        d3 == IF wsz < 3
              THEN [d2 EXCEPT !.buffer = PutFill(@, wsz, wsz + (3 - wsz), 0)]
              ELSE d2
    IN  [d |-> d3,
         st |-> [st0 EXCEPT !.cycle1_countdown = MAX_DIST, !.inp = wsz,
                            !.wind_sz = wsz, !.wind_b = 0, !.wind_e = wsz]]

\* Dict::reset_next_input_entry
ResetNextInputEntry(c) ==
    IF c.st.cycle1_countdown = 0
    THEN [c EXCEPT !.d = Match2Remove(Match3Remove(c.d, c.st.wind_e), c.st.wind_e)]
    ELSE [c EXCEPT !.st.cycle1_countdown = @ - 1]

\* State::get_byte
GetByte(c, s) ==
    LET st == c.st
        idx == st.wind_e
        eof == st.inp >= Len(s)
        value == IF eof THEN 0 ELSE s[st.inp + 1]
        b1 == Put(c.d.buffer, idx, value)
        b2 == IF idx < MAX_MATCH_LEN THEN Put(b1, BUF_SIZE + idx, value) ELSE b1
    IN  [d |-> [c.d EXCEPT !.buffer = b2],
         st |-> [st EXCEPT
                   !.wind_sz = IF eof /\ @ > 0 THEN @ - 1 ELSE @,
                   !.inp = IF eof THEN @ ELSE @ + 1,
                   !.wind_e = (@ + 1) % BUF_SIZE,
                   !.wind_b = (@ + 1) % BUF_SIZE]]

\* State::pos2off with the two branches exchanged at wind_b = pos + 1
Pos2OffWrapped(st, pos) ==
    IF st.wind_b > pos + 1 THEN st.wind_b - pos ELSE BUF_SIZE - (pos - st.wind_b)

\* State::pos2off
Pos2Off(st, pos) ==
    IF st.wind_b > pos THEN st.wind_b - pos ELSE BUF_SIZE - (pos - st.wind_b)

(***************************************************************************)
(* Dict::advance                                                           *)
(***************************************************************************)
\* one step of the skip phase
SkipStep(c, s) ==
    LET c1 == ResetNextInputEntry(c)
        d2 == Match3SkipAdvance(c1.d, c1.st)
        d3 == Match2Add(d2, c1.st.wind_b % 65536)
    IN  GetByte([d |-> d3, st |-> c1.st], s)

\* the skip phase: n steps over bytes of the match already emitted.  The
\* loop is unrolled by halves and the first half is evaluated (h = h) before
\* the second starts, which keeps TLC's evaluation shallow.
RECURSIVE SkipSteps(_, _, _)
SkipSteps(c, s, n) ==
    IF n = 0 THEN c
    ELSE IF n = 1 THEN SkipStep(c, s)
    ELSE LET h == SkipSteps(c, s, n \div 2)
         IN  IF h = h THEN SkipSteps(h, s, n - (n \div 2)) ELSE h

\* the first index k in lo..hi-1 at which the bytes at ref_pos + k and
\* match_pos + k differ, hi when there is none
RECURSIVE FirstDiff(_, _, _, _, _)
FirstDiff(buffer, ref_pos, match_pos, lo, hi) ==
    IF lo >= hi THEN hi
    ELSE IF hi = lo + 1
    THEN IF Get(buffer, ref_pos + lo) = Get(buffer, match_pos + lo) THEN hi ELSE lo
    ELSE LET mid == (lo + hi) \div 2
             l == FirstDiff(buffer, ref_pos, match_pos, lo, mid)
         IN  IF l < mid THEN l
             ELSE FirstDiff(buffer, ref_pos, match_pos, mid, hi)

\* the inner while loop: the number of equal bytes at ref_pos and match_pos,
\* at most window
MatchLen(buffer, ref_pos, match_pos, window) ==
    FirstDiff(buffer, ref_pos, match_pos, 0, window)

\* the walk along the Match3 chain: n nodes are left to visit, m carries
\* lb_pos, lb_len and best_pos
RECURSIVE ChainWalk(_, _, _, _, _)
ChainWalk(d, st, match_pos, n, m) ==
    IF n = 0 \/ match_pos >= BUF_SIZE THEN m
    ELSE LET matched == MatchLen(d.buffer, st.wind_b, match_pos, st.wind_sz)
             bp == IF matched >= 2 /\ matched < MAX_MATCH_TABLE
                      /\ m.best_pos[matched] = 0
                   THEN [m.best_pos EXCEPT ![matched] = match_pos + 1]
                   ELSE m.best_pos
             better == matched >= 2 /\ matched > m.lb_len
             m1 == [lb_pos |-> IF better THEN match_pos ELSE m.lb_pos,
                    lb_len |-> IF better THEN matched ELSE m.lb_len,
                    best_pos |-> bp]
             stop == better /\ (matched = st.wind_sz
                                \/ matched > Get(d.m3_best_len, match_pos))
         IN  IF stop THEN m1
             ELSE ChainWalk(d, st, Get(d.m3_chain, match_pos), n - 1, m1)

\* Dict::advance is modelled in stages, each an operator whose parameters are
\* the values the code has computed so far.
\* The end of Dict::advance: the next byte enters the window and the State's
\* view of the look-ahead is refreshed.  c1 = [d, st] after
\* reset_next_input_entry.
AdvanceInput(c1, s) ==
    GetByte([d |-> Match2Add(c1.d, c1.st.wind_b % 65536), st |-> c1.st], s)

\* what Dict::advance leaves behind: d, st, best_off, lb_off, lb_len
AdvanceResult(c2, should_terminate, best_off1, lb_off1, lb_len1) ==
    LET buf_sz1 == IF should_terminate THEN 0 ELSE c2.st.wind_sz + 1
    IN  [d |-> c2.d,
         st |-> [c2.st EXCEPT !.buf_sz = buf_sz1, !.bufp = c2.st.inp - buf_sz1],
         best_off |-> best_off1,
         lb_off |-> lb_off1,
         lb_len |-> IF should_terminate THEN 0 ELSE lb_len1]

\* Dict::advance after the search: m = [lb_pos, lb_len, best_pos] is what the
\* search found at st.wind_b in d
AdvanceRecord(d, st, m, s, best_off) ==
    LET exhausted == 1 >= st.wind_sz
        d1 == [d EXCEPT !.m3_best_len =
                 Put(@, st.wind_b,
                     IF exhausted THEN (MAX_MATCH_LEN + 1) % 65536
                     ELSE m.lb_len % 65536)]
    IN  AdvanceResult(
            AdvanceInput(ResetNextInputEntry([d |-> d1, st |-> st]), s),
            exhausted /\ st.wind_sz = 0,
            IF exhausted THEN best_off
            ELSE [i \in 0..(MAX_MATCH_TABLE - 1) |->
                    IF i < 2 THEN best_off[i]
                    ELSE IF m.best_pos[i] # 0
                         THEN Pos2Off(st, m.best_pos[i] - 1)
                         ELSE 0],
            IF ~exhausted /\ m.lb_len > 1 THEN Pos2Off(st, m.lb_pos) ELSE 0,
            IF exhausted THEN 1 ELSE m.lb_len)

\* Dict::advance, the search: the Match3 chain is walked only when Match2
\* has found the pair and three bytes are left; a = Match3::advance's result
\* and r = Match2::search's
AdvanceSearch(a, st, r) ==
    IF r.found /\ st.wind_sz >= 3
    THEN ChainWalk(a.d, st, a.head, IF a.head = U16_MAX THEN 0 ELSE a.count, r)
    ELSE r

\* Dict::advance from Match3::advance on
AdvanceAt(a, st, s, best_off) ==
    AdvanceRecord(a.d, st,
                  AdvanceSearch(a, st,
                      Match2Search(a.d, st,
                          [lb_pos |-> 0, lb_len |-> 1,
                           best_pos |-> [i \in 0..(MAX_MATCH_TABLE - 1) |-> 0]])),
                  s, best_off)

\* Dict::advance after its skip phase
AdvanceFrom(c0, s, best_off) ==
    AdvanceAt(Match3Advance(c0.d, c0.st), c0.st, s, best_off)

\* Dict::advance on c = [d, st]; returns d, st, best_off, lb_off, lb_len
DictAdvance(c, s, prev_len, best_off, skip) ==
    AdvanceFrom(IF skip
                THEN SkipSteps(c, s, IF prev_len = 0 THEN 0 ELSE prev_len - 1)
                ELSE c,
                s, best_off)

(***************************************************************************)
(* Opcode emission.  o = [dst, out_pos, err]: dst holds the out_pos bytes  *)
(* written so far, cap is dst.len(), and err is the error a `?` has        *)
(* returned ("" while there is none); once err is set nothing more is      *)
(* written.                                                                *)
(***************************************************************************)
\* write_dst whose bounds test is off by one
WriteDstLoose(o, cap, slice) ==
    IF o.err # "" THEN o
    ELSE IF o.out_pos + Len(slice) > cap + 1 THEN [o EXCEPT !.err = "OutputOverrun"]
    ELSE [o EXCEPT !.dst = @ \o slice, !.out_pos = @ + Len(slice)]

\* write_dst
WriteDst(o, cap, slice) ==
    IF o.err # "" THEN o
    ELSE IF o.out_pos + Len(slice) > cap THEN [o EXCEPT !.err = "OutputOverrun"]
    ELSE [o EXCEPT !.dst = @ \o slice, !.out_pos = @ + Len(slice)]

\* write_zero_byte_length with its loop run while len >= 255
RECURSIVE WriteZeroByteLengthFloor(_, _, _)
WriteZeroByteLengthFloor(o, cap, len) ==
    IF len >= 255
    THEN WriteZeroByteLengthFloor(WriteDst(o, cap, <<0>>), cap, len - 255)
    ELSE WriteDst(o, cap, <<len % 256>>)

\* write_zero_byte_length
RECURSIVE WriteZeroByteLength(_, _, _)
WriteZeroByteLength(o, cap, len) ==
    IF len > 255
    THEN WriteZeroByteLength(WriteDst(o, cap, <<0>>), cap, len - 255)
    ELSE WriteDst(o, cap, <<len % 256>>)

\* the first byte one too small: 16 + lit_len
PrimingByteLow(lit_len) == (16 + (lit_len % 256)) % 256

\* the first byte of a stream that starts with a literal run of lit_len
PrimingByte(lit_len) == (17 + (lit_len % 256)) % 256

\* the back-patch of a short literal run into the previous opcode
BackPatch(o, cap, lit_len) ==
    IF o.err # "" THEN o
    ELSE IF o.out_pos < 2 \/ o.out_pos - 2 >= cap
    THEN [o EXCEPT !.err = "OutputOverrun"]
    ELSE [o EXCEPT !.dst[o.out_pos - 1] = BitOr(@, lit_len % 256)]

\* encode_literal_run after the length is written: the literal bytes
WriteLiterals(o1, cap, s, lit_ptr, lit_len) ==
    IF o1.err # "" THEN o1
    ELSE IF lit_ptr + lit_len > Len(s) THEN [o1 EXCEPT !.err = "InputOverrun"]
    ELSE WriteDst(o1, cap, SubSeq(s, lit_ptr + 1, lit_ptr + lit_len))

\* encode_literal_run whose priming test is lit_len < 238
EncodeLiteralRunStrict(o, cap, s, lit_ptr, lit_len) ==
    WriteLiterals(
        IF o.out_pos = 0 /\ lit_len < PRIME_MAX_LIT
        THEN WriteDst(o, cap, <<PrimingByte(lit_len)>>)
        ELSE IF lit_len <= 3 THEN BackPatch(o, cap, lit_len)
        ELSE IF lit_len <= 18 THEN WriteDst(o, cap, <<(lit_len - 3) % 256>>)
        ELSE WriteZeroByteLength(WriteDst(o, cap, <<0>>), cap, lit_len - 18),
        cap, s, lit_ptr, lit_len)

\* encode_literal_run
EncodeLiteralRun(o, cap, s, lit_ptr, lit_len) ==
    WriteLiterals(
        IF o.out_pos = 0 /\ lit_len <= PRIME_MAX_LIT
        THEN WriteDst(o, cap, <<PrimingByte(lit_len)>>)
        ELSE IF lit_len <= 3 THEN BackPatch(o, cap, lit_len)
        ELSE IF lit_len <= 18 THEN WriteDst(o, cap, <<(lit_len - 3) % 256>>)
        ELSE WriteZeroByteLength(WriteDst(o, cap, <<0>>), cap, lit_len - 18),
        cap, s, lit_ptr, lit_len)

\* the two bytes of an M1 opcode: [(off & 3) << 2, off >> 2]
M1Bytes(off) == <<((off % 4) * 4) % 256, (off \div 4) % 256>>

\* the distance field of M3 and M4: [off << 2, off >> 6]
\* the distance bytes without the shift that leaves room for the state bits
DistBytesUnshifted(off) == <<off % 256, (off \div 256) % 256>>

DistBytes(off) == <<(off * 4) % 256, (off \div 64) % 256>>

\* encode_lookback_match
EncodeLookbackMatch(o, cap, lb_len, lb_off, last_lit_len) ==
    IF lb_len = 2
    THEN WriteDst(o, cap, M1Bytes(lb_off - 1))
    ELSE IF lb_len <= M2_MAX_LEN /\ lb_off <= M2_MAX_OFFSET
    THEN WriteDst(o, cap,
           <<BitOr((lb_len - 1) * 32, ((lb_off - 1) % 8) * 4) % 256,
             ((lb_off - 1) \div 8) % 256>>)
    ELSE IF lb_len = M2_MIN_LEN /\ lb_off <= M1_MAX_OFFSET + M2_MAX_OFFSET
            /\ last_lit_len >= 4
    THEN WriteDst(o, cap, M1Bytes(lb_off - (1 + M2_MAX_OFFSET)))
    ELSE IF lb_off <= M3_MAX_OFFSET
    THEN LET o1 == IF lb_len <= M3_MAX_LEN
                   THEN WriteDst(o, cap, <<BitOr(M3_MARKER, (lb_len % 256) - 2)>>)
                   ELSE WriteZeroByteLength(WriteDst(o, cap, <<M3_MARKER>>), cap,
                                            lb_len - M3_MAX_LEN)
         IN  WriteDst(o1, cap, DistBytes(lb_off - 1))
    ELSE LET off == lb_off - M4_BASE_OFFSET
             h == ((off \div 16384) % 2) * 8
             o1 == IF lb_len <= M4_MAX_LEN
                   THEN WriteDst(o, cap,
                          <<BitOr(BitOr(M4_MARKER, h), (lb_len % 256) - 2)>>)
                   ELSE WriteZeroByteLength(
                          WriteDst(o, cap, <<BitOr(M4_MARKER, h)>>), cap,
                          lb_len - M4_MAX_LEN)
         IN  WriteDst(o1, cap, DistBytes(off))

\* find_better_match
FindBetterMatch(best_off, lb_len, lb_off) ==
    IF lb_len <= M2_MIN_LEN \/ lb_off <= M2_MAX_OFFSET
    THEN [lb_len |-> lb_len, lb_off |-> lb_off]
    ELSE IF lb_off > M2_MAX_OFFSET
            /\ lb_len >= M2_MIN_LEN + 1
            /\ lb_len <= M2_MAX_LEN + 1
            /\ best_off[lb_len - 1] # 0
            /\ best_off[lb_len - 1] <= M2_MAX_OFFSET
    THEN [lb_len |-> lb_len - 1, lb_off |-> best_off[lb_len - 1]]
    ELSE IF lb_off > M3_MAX_OFFSET
            /\ lb_len >= M4_MAX_LEN + 1
            /\ lb_len <= M2_MAX_LEN + 2
            /\ best_off[lb_len - 2] # 0
            /\ best_off[lb_len] <= M2_MAX_OFFSET
    THEN [lb_len |-> lb_len - 2, lb_off |-> best_off[lb_len - 2]]
    ELSE IF lb_off > M3_MAX_OFFSET
            /\ lb_len >= M4_MAX_LEN + 1
            /\ lb_len <= M3_MAX_LEN + 1
            /\ best_off[lb_len - 1] # 0
            /\ best_off[lb_len - 2] <= M3_MAX_OFFSET
    THEN [lb_len |-> lb_len - 1, lb_off |-> best_off[lb_len - 1]]
    ELSE [lb_len |-> lb_len, lb_off |-> lb_off]

(***************************************************************************)
(* compress_impl.  e is the record of its locals: dst, out_pos, err,       *)
(* lit_len, lit_ptr, lb_off, lb_len, best_off, state and the Dict.         *)
(***************************************************************************)
\* compress_worst_size without the 64 bytes of slack
CompressWorstSizeNoSlack(n) == n + (n \div 16) + 3

\* compress_worst_size
CompressWorstSize(n) == n + (n \div 16) + 64 + 3

\* a terminator whose length bits are left out
TerminatorNoLength == <<M4_MARKER, 0, 0>>

\* the terminating M4 instruction: [M4_MARKER | 1, 0, 0]
Terminator == <<BitOr(M4_MARKER, 1), 0, 0>>

\* the locals that Dict::advance writes: a is what it leaves behind
SetAdvance(e, a) ==
    [e EXCEPT !.lb_off = a.lb_off, !.lb_len = a.lb_len,
              !.best_off = a.best_off, !.state = a.st, !.dict = a.d]

\* the code before the loop, after Dict::init has left c = [d, st]
BeginAt(c, s) ==
    SetAdvance([pc |-> "loop", dst |-> << >>, out_pos |-> 0, err |-> "",
                lit_len |-> 0, lit_ptr |-> c.st.inp,
                lb_off |-> 0, lb_len |-> 0,
                best_off |-> [i \in 0..(MAX_MATCH_TABLE - 1) |-> 0],
                state |-> c.st, dict |-> c.d],
               DictAdvance(c, s, 0, [i \in 0..(MAX_MATCH_TABLE - 1) |-> 0], FALSE))

\* the code before the loop: State::new, Dict::init and the first advance
CompressBegin(s, d0) == BeginAt(DictInit(d0, NewState, s), s)

\* the loop's test for dropping the match found
Discard(e) ==
    \/ e.lb_len < 2
    \/ (e.lb_len = 2 /\ (e.lb_off > M1_MAX_OFFSET \/ e.lit_len = 0 \/ e.lit_len >= 4))
    \/ (e.lb_len = 2 /\ e.out_pos = 0)
    \/ (e.out_pos = 0 /\ e.lit_len = 0)
    \/ (e.lb_len = M2_MIN_LEN /\ e.lb_off > M1_MAX_OFFSET + M2_MAX_OFFSET
        /\ e.lit_len >= 4)

\* lit_ptr captured in every iteration, not only when no literal is pending
LitPtrEveryTime(e) == e.state.bufp

\* the first literal of a run is where the look-ahead starts
LitPtr(e) == IF e.lit_len = 0 THEN e.state.bufp ELSE e.lit_ptr

\* one iteration that takes the literal branch
LoopLiteral(e, s) ==
    SetAdvance([e EXCEPT !.lit_ptr = LitPtr(e), !.lit_len = @ + 1],
               DictAdvance([d |-> e.dict, st |-> e.state], s, 0, e.best_off, FALSE))

\* the match branch once the literals and the match fb are written: o2 is
\* [dst, out_pos, err] after the two encode calls
MatchEmitted(e, s, fb, o2) ==
    IF o2.err # ""
    THEN [e EXCEPT !.lit_ptr = LitPtr(e), !.lb_len = fb.lb_len,
                   !.lb_off = fb.lb_off,
                   !.dst = o2.dst, !.out_pos = o2.out_pos, !.err = o2.err]
    ELSE SetAdvance([e EXCEPT !.lit_ptr = LitPtr(e), !.lit_len = 0,
                              !.dst = o2.dst, !.out_pos = o2.out_pos],
                    DictAdvance([d |-> e.dict, st |-> e.state], s, fb.lb_len,
                                e.best_off, TRUE))

\* the match branch with the match fb that find_better_match has chosen
MatchAt(e, s, cap, fb) ==
    MatchEmitted(e, s, fb,
        EncodeLookbackMatch(
            EncodeLiteralRun([dst |-> e.dst, out_pos |-> e.out_pos, err |-> e.err],
                             cap, s, LitPtr(e), e.lit_len),
            cap, fb.lb_len, fb.lb_off, e.lit_len))

\* one iteration that emits the pending literals and the match
LoopMatch(e, s, cap) ==
    MatchAt(e, s, cap, FindBetterMatch(e.best_off, e.lb_len, e.lb_off))

\* the locals that the encode calls write: o is [dst, out_pos, err]
SetOut(e, o) == [e EXCEPT !.dst = o.dst, !.out_pos = o.out_pos, !.err = o.err]

\* the code after the loop: the trailing literals and the terminator
CompressEnd(e, s, cap) ==
    SetOut(e, WriteDst(EncodeLiteralRun(
                           [dst |-> e.dst, out_pos |-> e.out_pos, err |-> e.err],
                           cap, s, e.lit_ptr, e.lit_len),
                       cap, Terminator))

\* a `?` that has failed returns from compress_impl
ReturnOnErr(e) == IF e.err # "" THEN [e EXCEPT !.pc = "done"] ELSE e

\* one step of compress_impl from the loop on: an iteration, or the code
\* after the loop; nothing once it has returned
CompressStep(e, s, cap) ==
    IF e.pc = "done" THEN e
    ELSE IF e.state.buf_sz > 0
    THEN IF Discard(e)
         THEN ReturnOnErr(LoopLiteral(e, s))
         ELSE ReturnOnErr(LoopMatch(e, s, cap))
    ELSE [CompressEnd(e, s, cap) EXCEPT !.pc = "done"]

\* n steps of compress_impl (unrolled by halves, as SkipSteps is)
RECURSIVE CompressSteps(_, _, _, _)
CompressSteps(e, s, cap, n) ==
    IF n = 0 \/ e.pc = "done" THEN e
    ELSE IF n = 1 THEN CompressStep(e, s, cap)
    ELSE LET h == CompressSteps(e, s, cap, n \div 2)
         IN  IF h = h THEN CompressSteps(h, s, cap, n - (n \div 2)) ELSE h

\* compress_impl(src, dst, storage) as a function: its result
\* (the loop runs once per literal or match, at most Len(s) times)
CompressImpl(s, cap, d0) == CompressSteps(CompressBegin(s, d0), s, cap, Len(s) + 1)

(***************************************************************************)
(* decompress.  k is the record of its locals: inp, outp, state, inst,     *)
(* lblen, the bytes dst[..outp] written so far, val (the value the last    *)
(* read returned), res (the Result returned: "" while running, "Ok" or the *)
(* Error), eos (the loop was left at the terminating M4) and pc.  cap is   *)
(* dst.len().                                                              *)
(***************************************************************************)
\* input_byte that reports Error at the end of the input
InputByteError(k, s) ==
    IF k.res # "" THEN k
    ELSE IF k.inp >= Len(s) THEN [k EXCEPT !.res = "Error"]
    ELSE [k EXCEPT !.val = s[k.inp + 1], !.inp = @ + 1]

\* input_byte
InputByte(k, s) ==
    IF k.res # "" THEN k
    ELSE IF k.inp >= Len(s) THEN [k EXCEPT !.res = "InputOverrun"]
    ELSE [k EXCEPT !.val = s[k.inp + 1], !.inp = @ + 1]

\* input_slice: the slice read is s[old inp .. new inp]
InputSlice(k, s, len) ==
    IF k.res # "" THEN k
    ELSE IF k.inp + len > Len(s) THEN [k EXCEPT !.res = "InputOverrun"]
    ELSE [k EXCEPT !.inp = @ + len]

\* read_le16 without the bounds check: a byte that is missing reads as 0
ReadLe16Padded(k, s) ==
    IF k.res # "" THEN k
    ELSE [k EXCEPT !.inp = Min(@ + 2, Len(s)),
                   !.val = (IF k.inp < Len(s) THEN s[k.inp + 1] ELSE 0)
                           + (256 * (IF k.inp + 1 < Len(s) THEN s[k.inp + 2] ELSE 0))]

\* read_le16
ReadLe16(k, s) ==
    LET k1 == InputSlice(k, s, 2)
    IN  IF k1.res # "" THEN k1
        ELSE [k1 EXCEPT !.val = s[k.inp + 1] + (256 * s[k.inp + 2])]

\* output_slice without the bounds check
OutputSliceUnchecked(k, cap, len) ==
    IF k.res # "" THEN k
    ELSE [k EXCEPT !.outp = @ + len]

\* output_slice
OutputSlice(k, cap, len) ==
    IF k.res # "" THEN k
    ELSE IF k.outp + len > cap THEN [k EXCEPT !.res = "OutputOverrun"]
    ELSE [k EXCEPT !.outp = @ + len]

\* copy_slice
CopySlice(k, s, cap, len) ==
    IF k.res # "" \/ len = 0 THEN k
    ELSE LET k2 == OutputSlice(InputSlice(k, s, len), cap, len)
         IN  IF k2.res # "" THEN k2
             ELSE [k2 EXCEPT !.dst = @ \o SubSeq(s, k.inp + 1, k.inp + len)]

\* the number of zero bytes of s from index i on
RECURSIVE ZeroRun(_, _)
ZeroRun(s, i) == IF i < Len(s) /\ s[i + 1] = 0 THEN 1 + ZeroRun(s, i + 1) ELSE 0

\* consume_zero_byte_length with an if where the while is: at most one
\* zero byte is consumed
ConsumeZeroByteLengthOnce(k, s) ==
    IF k.res # "" THEN k
    ELSE LET offset == IF k.inp < Len(s) /\ s[k.inp + 1] = 0 THEN 1 ELSE 0
         IN  [k EXCEPT !.inp = @ + offset, !.val = offset]

\* consume_zero_byte_length.  Its guard offset > MAX255_COUNT
\* (usize::MAX / 255 - 2) is beyond the length of any input of the model.
ConsumeZeroByteLength(k, s) ==
    IF k.res # "" THEN k
    ELSE LET offset == ZeroRun(s, k.inp)
         IN  [k EXCEPT !.inp = @ + offset, !.val = offset]

\* the extension without the zero bytes counted: base + tail
ExtendedLengthNoRun(k, s, base) ==
    LET k1 == ConsumeZeroByteLength(k, s)
        k2 == InputByte(k1, s)
    IN  IF k2.res # "" THEN k2
        ELSE [k2 EXCEPT !.val = base + k2.val]

\* the extension of a length whose opcode bits are zero:
\* offset * 255 + base + tail
ExtendedLength(k, s, base) ==
    LET k1 == ConsumeZeroByteLength(k, s)
        k2 == InputByte(k1, s)
    IN  IF k2.res # "" THEN k2
        ELSE [k2 EXCEPT !.val = (k1.val * 255) + base + k2.val]

\* one byte of the lookback copy: dst[outp + i] = dst[lbcur + i]
LookbackByte(dst, dist) == Append(dst, dst[Len(dst) - dist + 1])

\* the lookback copy as one block copy of dst[lbcur..lbcur + n], taken before
\* any byte is written: what lies at outp or beyond reads as 0
LookbackCopyOnce(dst, dist, n) ==
    dst \o [i \in 1..n |-> IF Len(dst) - dist + i <= Len(dst)
                            THEN dst[Len(dst) - dist + i] ELSE 0]

\* the lookback copy, byte by byte in increasing order (unrolled by halves)
RECURSIVE LookbackCopy(_, _, _)
LookbackCopy(dst, dist, n) ==
    IF n = 0 THEN dst
    ELSE IF n = 1 THEN LookbackByte(dst, dist)
    ELSE LET h == LookbackCopy(dst, dist, n \div 2)
         IN  IF h = h THEN LookbackCopy(h, dist, n - (n \div 2)) ELSE h

\* the end of an iteration with the room in dst tested before lbcur is
\* computed
CopyMatchRoomFirst(k, s, cap, dist, lblen, nstate) ==
    IF k.res # "" THEN k
    ELSE IF lblen > 0 /\ k.outp + lblen > cap
    THEN [k EXCEPT !.distance = dist, !.lblen = lblen, !.res = "OutputOverrun"]
    ELSE IF k.outp < dist
    THEN [k EXCEPT !.distance = dist, !.res = "LookbehindOverrun"]
    ELSE LET k1 == [k EXCEPT !.distance = dist,
                             !.lblen = lblen,
                             !.lbcur = k.outp - dist,
                             !.dst = LookbackCopy(@, dist, lblen),
                             !.outp = @ + lblen]
             k2 == CopySlice(k1, s, cap, nstate)
         IN  IF k2.res # "" THEN k2 ELSE [k2 EXCEPT !.state = nstate]

\* the end of an iteration that decoded a match: lbcur, the lookback copy
\* and the literal run of nstate bytes
CopyMatch(k, s, cap, dist, lblen, nstate) ==
    IF k.res # "" THEN k
    ELSE IF k.outp < dist
    THEN [k EXCEPT !.distance = dist, !.res = "LookbehindOverrun"]
    ELSE IF lblen > 0 /\ (k.outp + lblen > cap \/ (k.outp - dist) + lblen > cap)
    THEN [k EXCEPT !.distance = dist, !.lblen = lblen, !.lbcur = k.outp - dist,
                   !.res = "OutputOverrun"]
    ELSE LET k1 == [k EXCEPT !.distance = dist,
                             !.lblen = lblen,
                             !.lbcur = k.outp - dist,
                             !.dst = LookbackCopy(@, dist, lblen),
                             !.outp = @ + lblen]
             k2 == CopySlice(k1, s, cap, nstate)
         IN  IF k2.res # "" THEN k2 ELSE [k2 EXCEPT !.state = nstate]

\* [M2]
DecodeM2(k, s, cap) ==
    LET k1 == InputByte(k, s)
        dist == (k1.val * 8) + ((k.inst \div 4) % 8) + 1
    IN  CopyMatch(k1, s, cap, dist, (k.inst \div 32) + 1, k.inst % 4)

\* [M3]
DecodeM3(k, s, cap) ==
    LET lblen0 == (k.inst % 32) + 2
        k1 == IF lblen0 = 2 THEN ExtendedLength(k, s, 31) ELSE k
        lblen == IF lblen0 = 2 THEN 2 + k1.val ELSE lblen0
        k2 == ReadLe16(k1, s)
    IN  CopyMatch(k2, s, cap, (k2.val \div 4) + 1, lblen, k2.val % 4)

\* [M4], and the terminating opcode
DecodeM4(k, s, cap) ==
    LET lblen0 == (k.inst % 8) + 2
        k1 == IF lblen0 = 2 THEN ExtendedLength(k, s, 7) ELSE k
        lblen == IF lblen0 = 2 THEN 2 + k1.val ELSE lblen0
        k2 == ReadLe16(k1, s)
        base_dist == (((k.inst \div 8) % 2) * 16384) + (k2.val \div 4)
    IN  IF k2.res # "" THEN k2
        ELSE IF base_dist = 0
        THEN [k2 EXCEPT !.lblen = lblen, !.eos = TRUE, !.pc = "final"]
        ELSE CopyMatch(k2, s, cap, base_dist + 16384, lblen, k2.val % 4)

\* [Literal]
DecodeLiteral(k, s, cap) ==
    LET len0 == k.inst + 3
        k1 == IF len0 = 3 THEN ExtendedLength(k, s, 15) ELSE k
        len == IF len0 = 3 THEN 3 + k1.val ELSE len0
        k2 == CopySlice(k1, s, cap, len)
    IN  IF k2.res # "" THEN k2 ELSE [k2 EXCEPT !.state = 4]

\* [M1, short] and [M1, long]
DecodeM1(k, s, cap) ==
    LET k1 == InputByte(k, s)
        base == IF k.state # 4 THEN 1 ELSE 2049
        dist == (k.inst \div 4) + (k1.val * 4) + base
    IN  CopyMatch(k1, s, cap, dist, IF k.state # 4 THEN 2 ELSE 3, k.inst % 4)

\* the code before the loop
DecompressBegin(s, cap) ==
    LET k0 == [pc |-> "loop", inp |-> 0, outp |-> 0, state |-> 0, inst |-> 0,
               lblen |-> 0, lbcur |-> 0, distance |-> 0, dst |-> << >>,
               val |-> 0, res |-> "", eos |-> FALSE]
        k1 == InputByte(k0, s)
        inst == k1.val
        k2 == [k1 EXCEPT !.inst = inst]
        k3 == IF inst >= 22
              THEN LET c == CopySlice(k2, s, cap, inst - 17)
                   IN  IF c.res # "" THEN c ELSE [c EXCEPT !.state = 4]
              ELSE IF inst >= 18
              THEN CopySlice([k2 EXCEPT !.state = inst - 17], s, cap, inst - 17)
              ELSE k2
    IN  IF Len(s) < 3 THEN [k0 EXCEPT !.res = "InputOverrun"] ELSE k3

\* one iteration of the loop
DecompressLoop(k, s, cap) ==
    LET r == InputByte([k EXCEPT !.distance = 0], s)
        k0 == IF k.inp > 1 \/ k.state > 0
              THEN (IF r.res # "" THEN r ELSE [r EXCEPT !.inst = r.val])
              ELSE [k EXCEPT !.distance = 0]
    IN  IF k0.res # "" THEN k0
        ELSE IF BitAnd(k0.inst, 192) # 0 THEN DecodeM2(k0, s, cap)
        ELSE IF BitAnd(k0.inst, M3_MARKER) # 0 THEN DecodeM3(k0, s, cap)
        ELSE IF BitAnd(k0.inst, M4_MARKER) # 0 THEN DecodeM4(k0, s, cap)
        ELSE IF k0.state = 0 THEN DecodeLiteral(k0, s, cap)
        ELSE DecodeM1(k0, s, cap)

\* the code after the loop with inp compared first
DecompressEndInpFirst(k, s) ==
    IF k.inp < Len(s) THEN [k EXCEPT !.res = "InputNotConsumed"]
    ELSE IF k.inp > Len(s) THEN [k EXCEPT !.res = "InputOverrun"]
    ELSE IF k.lblen # 3 THEN [k EXCEPT !.res = "Error"]
    ELSE [k EXCEPT !.res = "Ok"]

\* the code after the loop
DecompressEnd(k, s) ==
    IF k.lblen # 3 THEN [k EXCEPT !.res = "Error"]
    ELSE IF k.inp = Len(s) THEN [k EXCEPT !.res = "Ok"]
    ELSE IF k.inp < Len(s) THEN [k EXCEPT !.res = "InputNotConsumed"]
    ELSE [k EXCEPT !.res = "InputOverrun"]

\* a record whose res is set has returned
Returned(k) == IF k.res # "" THEN [k EXCEPT !.pc = "done"] ELSE k

\* one step of decompress: an iteration of the loop, or the code after it
DecompressStep(k, s, cap) ==
    IF k.pc = "loop" THEN Returned(DecompressLoop(k, s, cap))
    ELSE IF k.pc = "final" THEN Returned(DecompressEnd(k, s))
    ELSE k

\* n steps of decompress (unrolled by halves)
RECURSIVE DecompressSteps(_, _, _, _)
DecompressSteps(k, s, cap, n) ==
    IF n = 0 \/ k.pc = "done" THEN k
    ELSE IF n = 1 THEN DecompressStep(k, s, cap)
    ELSE LET h == DecompressSteps(k, s, cap, n \div 2)
         IN  IF h = h THEN DecompressSteps(h, s, cap, n - (n \div 2)) ELSE h

\* decompress(src, dst) as a function: its result.  Every iteration but the
\* first reads a byte, so the loop runs at most Len(s) + 1 times.
Decompress(s, cap) ==
    DecompressSteps(Returned(DecompressBegin(s, cap)), s, cap, Len(s) + 3)

(***************************************************************************)
(* The state machine: calls of compress_no_alloc and of decompress, one    *)
(* step for the code before the loop, for each iteration of the loop and   *)
(* for the code after it.                                                  *)
(***************************************************************************)
VARIABLES
    dict,       \* the Dict handed to compress_no_alloc, kept across calls
    calls,      \* the number of compress calls made with dict
    src,        \* compress_impl: its src argument
    dst_len,    \*   dst.len()
    dst,        \*   the bytes dst[..out_pos] written so far
    out_pos, lit_len, lit_ptr, lb_off, lb_len, best_off, state,
    err,        \*   the Error returned ("" when there is none)
    epc,        \*   "idle", "loop" or "done"
    dec_src,    \* decompress: its src argument
    dec_dst_len,\*   dst.len()
    dec_dst,    \*   the bytes dst[..outp] written so far
    inp, outp, dec_state, inst, lblen,
    lbcur,      \*   where the last lookback copy read from
    distance,   \*   the distance of the match opcode read in the last
                \*   iteration, 0 when it read none
    res,        \*   the Result returned ("" while running)
    eos,        \*   the loop was left at the terminating M4
    dpc,        \*   "idle", "loop", "final" or "done"
    mode,       \* what dec_src is: "none", "exact", "trunc", "garbage", "raw"
    zlen        \* write_zero_byte_length: its len argument

encVars == <<src, dst_len, dst, out_pos, lit_len, lit_ptr, lb_off, lb_len,
             best_off, state, err, epc>>
decVars == <<dec_src, dec_dst_len, dec_dst, inp, outp, dec_state, inst, lblen,
             lbcur, distance, res, eos, dpc, mode>>
vars == <<dict, calls, encVars, decVars, zlen>>

\* the encoder's variables as the record the operators work on, and back
EncRec ==
    [pc |-> epc, dst |-> dst, out_pos |-> out_pos, err |-> err,
     lit_len |-> lit_len, lit_ptr |-> lit_ptr, lb_off |-> lb_off,
     lb_len |-> lb_len, best_off |-> best_off, state |-> state, dict |-> dict]

SetEnc(e) ==
    /\ epc' = e.pc
    /\ dst' = e.dst
    /\ out_pos' = e.out_pos
    /\ err' = e.err
    /\ lit_len' = e.lit_len
    /\ lit_ptr' = e.lit_ptr
    /\ lb_off' = e.lb_off
    /\ lb_len' = e.lb_len
    /\ best_off' = e.best_off
    /\ state' = e.state
    /\ dict' = e.dict

\* the decoder's variables as the record the operators work on, and back
DecRec ==
    [pc |-> dpc, inp |-> inp, outp |-> outp, state |-> dec_state, inst |-> inst,
     lblen |-> lblen, lbcur |-> lbcur, distance |-> distance, dst |-> dec_dst,
     val |-> 0, res |-> res, eos |-> eos]

SetDec(k) ==
    /\ dpc' = k.pc
    /\ inp' = k.inp
    /\ outp' = k.outp
    /\ dec_state' = k.state
    /\ inst' = k.inst
    /\ lblen' = k.lblen
    /\ lbcur' = k.lbcur
    /\ distance' = k.distance
    /\ dec_dst' = k.dst
    /\ res' = k.res
    /\ eos' = k.eos

Init ==
    /\ dict = FreshDict
    /\ calls = 0
    /\ src = << >>
    /\ dst_len = 0
    /\ dst = << >>
    /\ out_pos = 0
    /\ lit_len = 0
    /\ lit_ptr = 0
    /\ lb_off = 0
    /\ lb_len = 0
    /\ best_off = [i \in 0..(MAX_MATCH_TABLE - 1) |-> 0]
    /\ state = NewState
    /\ err = ""
    /\ epc = "idle"
    /\ dec_src = << >>
    /\ dec_dst_len = 0
    /\ dec_dst = << >>
    /\ inp = 0
    /\ outp = 0
    /\ dec_state = 0
    /\ inst = 0
    /\ lblen = 0
    /\ lbcur = 0
    /\ distance = 0
    /\ res = ""
    /\ eos = FALSE
    /\ dpc = "idle"
    /\ mode = "none"
    /\ zlen = 0

\* compress_no_alloc(s, dst, dict) with dst.len() = cap is called and runs
\* to the head of its loop
CompressCall(s, cap) ==
    /\ epc # "loop"
    /\ src' = s
    /\ dst_len' = cap
    /\ calls' = calls + 1
    /\ SetEnc(CompressBegin(s, dict))
    /\ UNCHANGED <<decVars, zlen>>

\* an iteration of the loop that drops the match and extends the literals
CompressLoopLiteral ==
    /\ epc = "loop"
    /\ state.buf_sz > 0
    /\ Discard(EncRec)
    /\ SetEnc(ReturnOnErr(LoopLiteral(EncRec, src)))
    /\ UNCHANGED <<calls, src, dst_len, decVars, zlen>>

\* an iteration of the loop that emits the literals and the match
CompressLoopMatch ==
    /\ epc = "loop"
    /\ state.buf_sz > 0
    /\ ~Discard(EncRec)
    /\ SetEnc(ReturnOnErr(LoopMatch(EncRec, src, dst_len)))
    /\ UNCHANGED <<calls, src, dst_len, decVars, zlen>>

\* the code after the loop, and the return
CompressFinish ==
    /\ epc = "loop"
    /\ state.buf_sz = 0
    /\ SetEnc([CompressEnd(EncRec, src, dst_len) EXCEPT !.pc = "done"])
    /\ UNCHANGED <<calls, src, dst_len, decVars, zlen>>

\* decompress(s, dst) with dst.len() = cap is called and runs to the head
\* of its loop; m says where s comes from
DecompressCall(s, cap, m) ==
    /\ dpc # "loop"
    /\ dpc # "final"
    /\ dec_src' = s
    /\ dec_dst_len' = cap
    /\ mode' = m
    /\ SetDec(Returned(DecompressBegin(s, cap)))
    /\ UNCHANGED <<dict, calls, encVars, zlen>>

\* an iteration of the decoder's loop
DecompressIteration ==
    /\ dpc = "loop"
    /\ SetDec(DecompressStep(DecRec, dec_src, dec_dst_len))
    /\ UNCHANGED <<dict, calls, encVars, zlen, dec_src, dec_dst_len, mode>>

\* the code after the decoder's loop, and the return
DecompressFinish ==
    /\ dpc = "final"
    /\ SetDec(DecompressStep(DecRec, dec_src, dec_dst_len))
    /\ UNCHANGED <<dict, calls, encVars, zlen, dec_src, dec_dst_len, mode>>

(***************************************************************************)
(* The inputs                                                              *)
(***************************************************************************)
\* the byte strings over B of length 0..n
SeqsUpTo(B, n) == UNION {[1..m -> B] : m \in 0..n}

\* strictly increasing bytes 0, 1, ..., n-1
Ramp(n) == [i \in 1..n |-> i - 1]

\* n copies of the bytes of p
RECURSIVE Rep(_, _)
Rep(p, n) == IF n = 0 THEN << >> ELSE p \o Rep(p, n - 1)

\* the sources compressed: every short string over SrcBytes, the ramps at the
\* longest literal run the first byte can carry, and a few longer strings
\* with runs, periods and literals between matches
SmallInputs == SeqsUpTo(SrcBytes, MaxLen)
RampInputs == {Ramp(PRIME_MAX_LIT), Ramp(PRIME_MAX_LIT + 1)}
\* a source whose last four bytes match at a distance beyond M2_MAX_OFFSET
\* and, one byte shorter, at distance 4
FarInput ==
    <<1, 2, 3, 4>> \o [i \in 1..(M2_MAX_OFFSET + 2) |-> 0] \o <<1, 2, 3, 7, 1, 2, 3, 4>>

SampleInputs ==
    {Rep(<<0>>, 40),
     Rep(<<0, 1, 2>>, 6),
     Ramp(5) \o Rep(<<7>>, 12) \o Ramp(3) \o Rep(<<7>>, 12) \o <<9>>,
     Ramp(20) \o <<100, 101>> \o Ramp(20) \o <<0, 1, 50, 0, 1>>,
     FarInput}
Inputs == SmallInputs \cup RampInputs \cup SampleInputs

\* the sources compressed into a dst of every length, and with a used Dict
BinInputs(n) == SeqsUpTo({0, 1}, n)

\* the compressed bytes of s: compress(s), as a function
Compressed(s) == CompressImpl(s, CompressWorstSize(Len(s)), FreshDict).dst

\* the byte strings decompressed directly
\* every short string over DecBytes, and the encoder's output for the short
\* strings of two bytes
DecInputs ==
    SeqsUpTo(DecBytes, MaxDecLen) \cup {Compressed(b) : b \in BinInputs(MaxDecLen)}

\* a first byte that copies one literal (state 1) or five (state 4), followed
\* by every short string over DecBytes: what follows is decoded as an
\* instruction with output behind it
PrimedInputs ==
    {p \o t : p \in {<<18, 0>>, <<22, 0, 0, 0, 0, 0>>},
              t \in SeqsUpTo(DecBytes, MaxDecLen)}

\* the documented streams: 512 zero bytes compressed (decompress.rs, line 10)
\* and a literal 'a' followed by a match that overlaps its own output
ZerosVector == <<18, 0, 32, 0, 223, 0, 0, 17, 0, 0>>
OverlapVector == <<18, 97, 32, 0, 252, 0, 0, 17, 0, 0>>
DocVectors == {ZerosVector, OverlapVector}

(***************************************************************************)
(* Spec: compress into a worst-case dst from a fresh Dict, then decompress *)
(* the output, the output less its last byte, or the output and 0xFF.      *)
(***************************************************************************)
\* compress(src): a fresh Dict and a dst of compress_worst_size(src.len())
CompressFresh ==
    \E s \in Inputs :
        /\ calls = 0
        /\ CompressCall(s, CompressWorstSize(Len(s)))

\* what the decoder is given in each mode
Variant(m, c) ==
    IF m = "exact" THEN c
    ELSE IF m = "trunc" THEN SubSeq(c, 1, Len(c) - 1)
    ELSE c \o <<255>>

\* decompress the compressed bytes into a dst of src.len()
DecompressOutput ==
    \E m \in {"exact", "trunc", "garbage"} :
        /\ epc = "done"
        /\ err = ""
        /\ dpc = "idle"
        /\ DecompressCall(Variant(m, dst), Len(src), m)

Next ==
    \/ CompressFresh
    \/ CompressLoopLiteral
    \/ CompressLoopMatch
    \/ CompressFinish
    \/ DecompressOutput
    \/ DecompressIteration
    \/ DecompressFinish

Spec == Init /\ [][Next]_vars

(***************************************************************************)
(* SpecDst: compress from a fresh Dict into a dst of every length up to    *)
(* MaxCap.                                                                 *)
(***************************************************************************)
CompressSized ==
    \E s \in BinInputs(MaxLen), cap \in 0..MaxCap :
        /\ calls = 0
        /\ CompressCall(s, cap)

NextDst ==
    \/ CompressSized
    \/ CompressLoopLiteral
    \/ CompressLoopMatch
    \/ CompressFinish

SpecDst == Init /\ [][NextDst]_vars

(***************************************************************************)
(* SpecReuse: two compress calls that share one Dict, each into a dst of   *)
(* every length up to MaxCap, so that the second call finds the Dict as a  *)
(* call that succeeded or one that returned early left it.                 *)
(***************************************************************************)
MaxFirstLen == 3

CompressFirstSized ==
    /\ calls = 0
    /\ \E s \in BinInputs(MaxFirstLen), cap \in 0..MaxCap : CompressCall(s, cap)

CompressAgainSized ==
    /\ calls = 1
    /\ epc = "done"
    /\ \E s \in BinInputs(MaxDictLen + 1), cap \in 0..MaxCap :
           CompressCall(s, cap)

NextReuse ==
    \/ CompressFirstSized
    \/ CompressAgainSized
    \/ CompressLoopLiteral
    \/ CompressLoopMatch
    \/ CompressFinish

SpecReuse == Init /\ [][NextReuse]_vars

(***************************************************************************)
(* SpecDict: two compress calls that share one Dict, as                    *)
(* compress_with_dict allows.                                              *)
(***************************************************************************)
\* the input of the doc examples: 512 zero bytes
DocInput == [i \in 1..512 |-> 0]

\* the first call finds the Dict as Dict::new left it
CompressFirst ==
    \E s \in BinInputs(MaxDictLen) \cup {DocInput} :
        /\ calls = 0
        /\ CompressCall(s, CompressWorstSize(Len(s)))

\* the second call finds the Dict as the first call left it
CompressAgain ==
    \E s \in BinInputs(MaxLen + 1) \cup {DocInput} :
        /\ calls = 1
        /\ epc = "done"
        /\ CompressCall(s, CompressWorstSize(Len(s)))

NextDict ==
    \/ CompressFirst
    \/ CompressAgain
    \/ CompressLoopLiteral
    \/ CompressLoopMatch
    \/ CompressFinish

SpecDict == Init /\ [][NextDict]_vars

(***************************************************************************)
(* SpecDec: decompress a byte string, and when it is accepted decompress   *)
(* it again without its last byte.                                         *)
(***************************************************************************)
\* the lengths of dst tried: none, too short for a match, and large
DecDstLens == {0, 2, MaxDecDst}

DecompressRaw ==
    /\ mode = "none"
    /\ dpc = "idle"
    /\ \E s \in DecInputs \cup PrimedInputs, cap \in DecDstLens :
           DecompressCall(s, cap, "raw")

\* the documented streams, into the documented dst of 512 bytes and into a
\* large one
DecompressVector ==
    /\ mode = "none"
    /\ dpc = "idle"
    /\ \E s \in DocVectors, cap \in {512, MaxDecDst} :
           DecompressCall(s, cap, "raw")

DecompressTruncated ==
    /\ mode = "raw"
    /\ dpc = "done"
    /\ res = "Ok"
    /\ DecompressCall(SubSeq(dec_src, 1, Len(dec_src) - 1), dec_dst_len, "trunc")

NextDec ==
    \/ DecompressRaw
    \/ DecompressVector
    \/ DecompressTruncated
    \/ DecompressIteration
    \/ DecompressFinish

SpecDec == Init /\ [][NextDec]_vars

(***************************************************************************)
(* SpecRun: write_zero_byte_length on every length up to MaxRun, from      *)
(* out_pos = 0 into a dst that holds what it writes, and then the          *)
(* decoder's reading of the bytes written.                                 *)
(***************************************************************************)
ZeroByteLengthCall ==
    /\ epc = "idle"
    /\ \E r \in 1..MaxRun :
           LET o == WriteZeroByteLength([dst |-> << >>, out_pos |-> 0, err |-> ""],
                                        r, r)
           IN  /\ zlen' = r
               /\ dst_len' = r
               /\ dst' = o.dst
               /\ out_pos' = o.out_pos
               /\ err' = o.err
               /\ epc' = "zrun"
    /\ UNCHANGED <<dict, calls, src, lit_len, lit_ptr, lb_off, lb_len, best_off,
                   state, decVars>>

\* the bytes tried after the length bytes
FollowBytes == {0, 1, 255}

\* the decoder reads the length back: consume_zero_byte_length and the read
\* of the tail byte, on the bytes written followed by one more byte
ZeroByteLengthRead ==
    /\ epc = "zrun"
    /\ dpc = "idle"
    /\ \E b \in FollowBytes :
           LET k == ExtendedLength([inp |-> 0, val |-> 0, res |-> ""],
                                   dst \o <<b>>, 0)
           IN  /\ dec_src' = dst \o <<b>>
               /\ inp' = k.inp
               /\ lblen' = k.val
               /\ res' = k.res
    /\ dpc' = "zread"
    /\ UNCHANGED <<dict, calls, encVars, zlen, dec_dst_len, dec_dst, outp,
                   dec_state, inst, lbcur, distance, eos, mode>>

NextRun ==
    \/ ZeroByteLengthCall
    \/ ZeroByteLengthRead

SpecRun == Init /\ [][NextRun]_vars

(***************************************************************************)
(* SpecBetter: find_better_match on a match (lb_len, lb_off) and a         *)
(* best_off table, drawn from the values its tests compare with.           *)
(***************************************************************************)
\* the match lengths: the bounds of the three tests, and one beside each
BetterLens ==
    {M2_MIN_LEN - 1, M2_MIN_LEN, M2_MIN_LEN + 1, M2_MAX_LEN + 1, M4_MAX_LEN + 1,
     M4_MAX_LEN + 2, M3_MAX_LEN + 1, M3_MAX_LEN + 2}

\* the offsets: the ends of the M2, M3 and M4 ranges, and one beyond each
BetterOffs ==
    {1, M2_MAX_OFFSET, M2_MAX_OFFSET + 1, M3_MAX_OFFSET, M3_MAX_OFFSET + 1, MAX_DIST}

\* the tables: the entries at len - 2, len - 1 and len are 0 (no match of
\* that length) or an offset, the others are 0
BetterTables(len) ==
    {[i \in 0..(MAX_MATCH_TABLE - 1) |->
         IF i = len - 2 THEN a ELSE IF i = len - 1 THEN b ELSE IF i = len THEN c ELSE 0]
     : a \in {0} \cup BetterOffs, b \in {0} \cup BetterOffs, c \in {0} \cup BetterOffs}

\* Dict::advance has returned a match and its table
MatchFound ==
    /\ epc = "idle"
    /\ \E len \in BetterLens, off \in BetterOffs :
           \E table \in BetterTables(len) :
               /\ lb_len' = len
               /\ lb_off' = off
               /\ best_off' = table
    /\ epc' = "match"
    /\ UNCHANGED <<dict, calls, src, dst_len, dst, out_pos, lit_len, lit_ptr,
                   state, err, decVars, zlen>>

\* find_better_match(&best_off, &mut lb_len, &mut lb_off)
FindBetterMatchCall ==
    /\ epc = "match"
    /\ LET fb == FindBetterMatch(best_off, lb_len, lb_off)
       IN  /\ lb_len' = fb.lb_len
           /\ lb_off' = fb.lb_off
    /\ epc' = "better"
    /\ UNCHANGED <<dict, calls, src, dst_len, dst, out_pos, lit_len, lit_ptr,
                   best_off, state, err, decVars, zlen>>

NextBetter ==
    \/ MatchFound
    \/ FindBetterMatchCall

SpecBetter == Init /\ [][NextBetter]_vars

(***************************************************************************)
(* The claims                                                              *)
(***************************************************************************)
\* C1: round trip.  For every src, the empty one included, decompressing
\* compress(src) into a dst of src.len() bytes returns Ok(src.len()) and
\* leaves dst equal to src.
RoundTrip ==
    (mode = "exact" /\ dpc = "done")
        => (res = "Ok" /\ outp = Len(src) /\ dec_dst = src)

\* C2: compressing the empty input yields exactly the three bytes
\* 0x11 0x00 0x00.
EmptyInput ==
    (epc = "done" /\ src = << >>) => (err = "" /\ dst = <<17, 0, 0>>)

\* C3: compress given a dst of compress_worst_size(src.len()) bytes never
\* fails with OutputOverrun, and writes at most that many bytes.
WorstCaseBound ==
    (epc = "done" /\ dst_len = CompressWorstSize(Len(src)))
        => (err # "OutputOverrun"
            /\ out_pos <= Len(src) + (Len(src) \div 16) + 64 + 3)

\* an incompressible source longer than the priming byte can carry has been
\* compressed: the output is longer than the source
WorstCaseReached ==
    /\ epc = "done"
    /\ err = ""
    /\ Len(src) > 238
    /\ out_pos = Len(src) + 5

\* C4: the bytes compress produces depend only on src: a call that finds
\* the Dict as an earlier call on any input left it writes the bytes that a
\* call with a fresh Dict writes.
Reproducible ==
    (calls = 2 /\ epc = "done") => (err = "" /\ dst = Compressed(src))

\* a second call on the same Dict has emitted a match
ReusedDictMatched ==
    /\ calls = 2
    /\ epc = "done"
    /\ Len(src) > 3
    /\ out_pos < Len(src) + 4

\* C5: every successful compress output has at least three bytes and ends
\* with 0x11 0x00 0x00.
TerminatorLast ==
    (epc = "done" /\ err = "")
        => (/\ out_pos >= 3
            /\ Len(dst) = out_pos
            /\ SubSeq(dst, out_pos - 2, out_pos) = <<17, 0, 0>>)

\* a compress of a non-empty source has succeeded in a dst it fills exactly
ExactFitSucceeded ==
    /\ epc = "done"
    /\ err = ""
    /\ Len(src) > 0
    /\ out_pos = dst_len

\* C6 as stated, for a dst large enough for all the output: a decompress
\* that never reaches a terminating M4 instruction returns InputOverrun and
\* nothing else.
NoTerminatorInputOverrun ==
    (dpc = "done" /\ ~eos /\ dec_dst_len = MaxDecDst) => res = "InputOverrun"

\* C6 as amended: a decompress that never reaches a terminating M4
\* instruction returns an error, never Ok: InputOverrun when the input runs
\* out, LookbehindOverrun or OutputOverrun when an instruction before that
\* point fails.
NoTerminatorFails ==
    (dpc = "done" /\ ~eos)
        => res \in {"InputOverrun", "LookbehindOverrun", "OutputOverrun"}

\* an input without a terminator has been decoded up to its end
RanOutAfterOutput ==
    /\ dpc = "done"
    /\ ~eos
    /\ res = "InputOverrun"
    /\ outp > 0

\* C7: when decompress accepts c, decompress of c without its last byte
\* returns InputOverrun.
TruncationDetected ==
    (mode = "trunc" /\ dpc = "done") => res = "InputOverrun"

\* an accepted input that carries output has been decoded again without its
\* last byte
TruncatedAfterOutput ==
    /\ mode = "trunc"
    /\ dpc = "done"
    /\ outp > 0

\* C8: for every src, decompress of compress(src) followed by the byte 0xFF
\* returns InputNotConsumed.
GarbageDetected ==
    (mode = "garbage" /\ dpc = "done") => res = "InputNotConsumed"

\* C9: when compress(src) has k bytes, compress into a dst of any length
\* below k returns OutputOverrun.
UndersizedDst ==
    (epc = "done" /\ dst_len < Len(Compressed(src))) => err = "OutputOverrun"

\* a compress into a dst one byte short has returned
OneByteShort ==
    /\ epc = "done"
    /\ Len(src) > 0
    /\ dst_len = Len(Compressed(src)) - 1

\* no pair of adjacent bytes of s occurs at two places
NoInternalMatch(s) ==
    \A i, j \in 1..(Len(s) - 1) :
        i < j => ~(s[i] = s[j] /\ s[i + 1] = s[j + 1])

\* C10: for 0 < src.len() <= 238 and a src without internal matches, the
\* output is the byte 17 + src.len(), the bytes of src, and 0x11 0x00 0x00.
PrimingRule ==
    (epc = "done" /\ Len(src) > 0 /\ Len(src) <= 238 /\ NoInternalMatch(src))
        => dst = <<17 + Len(src)>> \o src \o <<17, 0, 0>>

\* the longest source the priming byte can carry has been compressed
PrimedLongest ==
    /\ epc = "done"
    /\ Len(src) = 238
    /\ NoInternalMatch(src)
    /\ dst[1] = 255


\* C11 as stated: the overlap stream yields exactly 35 bytes of 'a'.
OverlapRun35 ==
    (dec_src = OverlapVector /\ dpc = "done")
        => (res = "Ok" /\ outp = 35 /\ dec_dst = [i \in 1..35 |-> 97])

\* C11, amended: decompressing the overlap stream into a dst that holds the
\* output decodes a 1-byte literal 'a' and then an M3 match of length 540
\* that reads from index 0, one byte behind where it writes, and returns
\* Ok(541) with 541 bytes of 'a'.
OverlapRun ==
    (dec_src = OverlapVector /\ dec_dst_len = MaxDecDst)
        => /\ (dpc = "loop" /\ inp = 2) => (outp = 1 /\ dec_dst = <<97>>)
           /\ (dpc = "loop" /\ inp > 2)
                  => (inp = 7 /\ inst = M3_MARKER /\ lblen = 540 /\ lbcur = 0
                      /\ outp = 541)
           /\ (dpc = "done")
                  => (res = "Ok" /\ outp = 541 /\ dec_dst = [i \in 1..541 |-> 97])

\* the overlap stream was decoded to its end
OverlapDecoded ==
    /\ dec_src = OverlapVector
    /\ dec_dst_len = MaxDecDst
    /\ dpc = "done"
    /\ res = "Ok"

\* C12: compressing 512 zero bytes, with a fresh Dict or with one that an
\* earlier call has used, succeeds with exactly 10 bytes: the first is 0x12
\* and the last three are 0x11 0x00 0x00.
ZerosCompressed ==
    (epc = "done" /\ src = DocInput)
        => /\ err = ""
           /\ out_pos = 10
           /\ Len(dst) = 10
           /\ dst[1] = 18
           /\ SubSeq(dst, 8, 10) = <<17, 0, 0>>

\* the 512 zero bytes were compressed by the second call on a Dict
ZerosCompressedAgain ==
    /\ calls = 2
    /\ epc = "done"
    /\ src = DocInput
    /\ out_pos = 10

\* C13: decompressing the documented stream into a dst of 512 bytes returns
\* Ok(512) with dst all zero; its match of length 511 reads from index 0,
\* one byte behind where it writes, so every byte it writes repeats the byte
\* written just before it.
ZerosDecoded ==
    (dec_src = ZerosVector /\ dec_dst_len = 512)
        => /\ (dpc = "loop" /\ inp > 2)
                  => /\ lblen = 511
                     /\ lbcur = 0
                     /\ outp = 512
                     /\ \A i \in 0..(lblen - 1) :
                            dec_dst[(outp - lblen) + i + 1] = dec_dst[lbcur + i + 1]
           /\ (dpc = "done")
                  => (res = "Ok" /\ outp = 512 /\ dec_dst = [i \in 1..512 |-> 0])

\* the documented stream was decoded into the documented dst
ZerosFilled ==
    /\ dec_src = ZerosVector
    /\ dec_dst_len = 512
    /\ dpc = "done"
    /\ res = "Ok"
    /\ outp = 512

\* the indices and the state of a running or returned decompress are in
\* range, and what it returns is a Result
DecoderInRange ==
    dpc # "idle"
        => /\ inp <= Len(dec_src)
           /\ outp <= dec_dst_len
           /\ Len(dec_dst) = outp
           /\ dec_state \in 0..4
           /\ res \in {"", "Ok", "Error", "InputOverrun", "OutputOverrun",
                        "LookbehindOverrun", "InputNotConsumed"}
           /\ (dpc = "done") = (res # "")

\* this step is an iteration that ran the lookback copy of lblen' bytes from
\* lbcur' to outp: it decoded a match (not a literal run, not the
\* terminator) and advanced outp by the match at least
LookbackCopied ==
    /\ dpc = "loop"
    /\ dpc' # "final"
    /\ ~(inst' < M4_MARKER /\ dec_state = 0)
    /\ lblen' > 0
    /\ outp' >= outp + lblen'

\* C14: decompress never reads or writes out of bounds: at every step
\* inp <= src.len(), outp <= dst.len() and state is one of 0..4, and every
\* index lbcur + i the lookback copy reads is below the index outp + i it
\* writes, which is inside dst.
DecoderSafe ==
    /\ []DecoderInRange
    /\ [][LookbackCopied
            => \A i \in 0..(lblen' - 1) :
                  /\ lbcur' + i < outp + i
                  /\ outp + i < dec_dst_len
                  /\ dec_dst'[outp + i + 1] = dec_dst'[lbcur' + i + 1]]_vars

\* a match at distance 1 and longer than that was copied
OverlapCopied ==
    /\ dpc = "loop"
    /\ lblen > 1
    /\ outp = lbcur + 1 + lblen + dec_state

\* C15: decompress returns Ok only after an M4 with base distance 0 whose
\* length is exactly 3 and with inp = src.len(); after such an M4 of another
\* length it returns Error, whatever inp is; after one of length 3 with
\* input left it returns InputNotConsumed.
EndOfStreamCheck ==
    (dpc = "done")
        => /\ (res = "Ok")
                  => (eos /\ inst \in 16..23 /\ lblen = 3 /\ inp = Len(dec_src))
           /\ (eos /\ lblen # 3) => (res = "Error")
           /\ (eos /\ lblen = 3 /\ inp < Len(dec_src))
                  => (res = "InputNotConsumed")
           /\ (res = "Ok") => (outp = Len(dec_dst))

\* a terminating M4 of another length than 3, with input left after it
WrongLengthBeforeInputLeft ==
    /\ dpc = "done"
    /\ eos
    /\ lblen # 3
    /\ inp < Len(dec_src)
    /\ res = "Error"

\* C16 as stated: write_zero_byte_length(r) writes floor(r / 255) zero bytes
\* and then the byte r mod 255.
ZeroRunFloor ==
    (epc = "zrun")
        => /\ err = ""
           /\ out_pos = (zlen \div 255) + 1
           /\ dst = [i \in 1..out_pos |-> IF i < out_pos THEN 0 ELSE zlen % 255]

\* C16, amended: for r >= 1 write_zero_byte_length(r) writes
\* ceil(r / 255) - 1 zero bytes and then one byte r - 255 * (ceil(r / 255) - 1),
\* which is in 1..255.
ZeroRunEncoding ==
    (epc = "zrun")
        => /\ err = ""
           /\ out_pos = ((zlen - 1) \div 255) + 1
           /\ dst = [i \in 1..out_pos |->
                        IF i < out_pos THEN 0 ELSE zlen - (255 * (out_pos - 1))]
           /\ dst[out_pos] \in 1..255

\* a length that is a multiple of 255, and more than 255, was written
ZeroRunMultiple ==
    /\ epc = "zrun"
    /\ zlen > 255
    /\ zlen % 255 = 0
    /\ err = ""

\* C17: find_better_match leaves (lb_len, lb_off) as it is, or makes lb_len
\* smaller by 1 or 2 and lb_off a non-zero offset strictly smaller than
\* before, whatever the match and the best_off table.
CloserMatchOnly ==
    [][(epc = "match" /\ epc' = "better")
           => \/ (lb_len' = lb_len /\ lb_off' = lb_off)
              \/ /\ lb_len' \in {lb_len - 1, lb_len - 2}
                 /\ lb_off' # 0
                 /\ lb_off' < lb_off]_vars

\* the next step calls encode_literal_run (from the match branch or after
\* the loop) and the call takes the back-patch branch
BackPatchPending ==
    /\ epc = "loop"
    /\ (state.buf_sz = 0 \/ ~Discard(EncRec))
    /\ ~(out_pos = 0 /\ lit_len <= PRIME_MAX_LIT)
    /\ lit_len <= 3

\* C18: when encode_literal_run takes the back-patch branch, out_pos >= 2
\* (so the index out_pos - 2 does not underflow), the item written last is
\* a match opcode with state bits 0, not a literal run and not the start of
\* the stream, and the low two bits of dst[out_pos - 2] are 0.  That the
\* last item is such a match is read off the decoder: with the terminator
\* appended, dst decodes without error, and the instruction before the
\* terminator left state 0 and was a match.
BackPatchLegal ==
    BackPatchPending
        => /\ out_pos >= 2
           /\ BitAnd(dst[out_pos - 1], 3) = 0
           /\ LET k == Decompress(dst \o Terminator, Len(src))
              IN  /\ k.res = "Ok"
                  /\ k.inp = out_pos + 3
                  /\ k.state = 0
                  /\ k.outp > 0

\* a literal run of 1..3 bytes is about to be patched into a match opcode
BackPatchReached ==
    /\ BackPatchPending
    /\ lit_len >= 1

\* the next iteration takes the match branch
MatchPending ==
    /\ epc = "loop"
    /\ state.buf_sz > 0
    /\ ~Discard(EncRec)

\* the match that iteration emits
EmittedMatch == FindBetterMatch(best_off, lb_len, lb_off)

\* C19: every match emitted, as find_better_match leaves it, is a valid
\* back-reference from the source index p = state.bufp where it starts:
\* 2 <= lb_len <= MAX_MATCH_LEN, 1 <= lb_off <= MAX_DIST, lb_off <= p,
\* p + lb_len <= src.len(), and src[p - lb_off + i] = src[p + i] for all
\* i < lb_len.
ValidBackReference ==
    MatchPending
        => LET m == EmittedMatch
               p == state.bufp
           IN  /\ 2 <= m.lb_len
               /\ m.lb_len <= MAX_MATCH_LEN
               /\ 1 <= m.lb_off
               /\ m.lb_off <= MAX_DIST
               /\ m.lb_off <= p
               /\ p + m.lb_len <= Len(src)
               /\ \A i \in 0..(m.lb_len - 1) :
                      src[(p - m.lb_off) + i + 1] = src[p + i + 1]

\* find_better_match has replaced the match found by a shorter, closer one
BetterMatchEmitted ==
    /\ MatchPending
    /\ EmittedMatch.lb_len < lb_len
    /\ EmittedMatch.lb_off < lb_off

\* C20: an iteration that has read a match opcode in full (M1 short or
\* long, M2, M3, or an M4 that is not the terminator) whose distance is
\* greater than outp returns LookbehindOverrun and has copied nothing:
\* outp and the bytes written are as before.
LookbehindChecked ==
    [][(dpc = "loop" /\ distance' > outp)
           => /\ res' = "LookbehindOverrun"
              /\ dpc' = "done"
              /\ outp' = outp
              /\ dec_dst' = dec_dst]_vars

\* a match opcode that reaches before the start of the output was read
\* after some output, into a dst with room for the match
LookbehindRejected ==
    /\ dpc = "done"
    /\ res = "LookbehindOverrun"
    /\ outp > 0
    /\ distance > outp
    /\ dec_dst_len = MaxDecDst

\* C21: for r >= 1 the bytes write_zero_byte_length(r) writes are zero
\* bytes and then one tail byte in 1..255, and consume_zero_byte_length
\* with the read of the tail byte consumes exactly these bytes and computes
\* zeros * 255 + tail = r, whatever byte follows them.
ZeroRunInverse ==
    /\ (epc = "zrun")
          => /\ dst[out_pos] \in 1..255
             /\ \A i \in 1..(out_pos - 1) : dst[i] = 0
    /\ (dpc = "zread")
          => /\ res = ""
             /\ inp = out_pos
             /\ lblen = zlen

\* a length written with two zero bytes or more was read back with a zero
\* byte after its tail
ZeroRunReadBack ==
    /\ dpc = "zread"
    /\ out_pos >= 3
    /\ dec_src[Len(dec_src)] = 0
    /\ lblen = zlen

\* the source bytes the next step of compress_impl emits: the match of the
\* match branch, the one byte the literal branch adds to the pending run,
\* nothing after the loop
StepLength ==
    IF state.buf_sz = 0 THEN 0
    ELSE IF Discard(EncRec) THEN 1
    ELSE EmittedMatch.lb_len

\* C22: compress_no_alloc returns no error but OutputOverrun, for every
\* src, dst length and Dict state: the pending literal run starts at
\* lit_ptr and ends where the look-ahead starts (lit_ptr + lit_len =
\* state.bufp <= src.len()), the loop is left with the look-ahead at
\* src.len(), and every step that does not fail moves the look-ahead by the
\* length it emits, so the literal and match lengths cover src once, in
\* order.
OnlyOutputOverrun ==
    /\ [](/\ err \in {"", "OutputOverrun"}
          /\ (epc = "loop")
                => /\ LitPtr(EncRec) + lit_len = state.bufp
                   /\ lit_ptr + lit_len <= Len(src)
                   /\ state.bufp + state.buf_sz <= Len(src)
                   /\ (state.buf_sz = 0) => (state.bufp = Len(src)))
    /\ [][(epc = "loop" /\ err' = "")
             => state'.bufp = state.bufp + StepLength]_vars

\* a call that found the Dict as an earlier call left it has returned
\* OutputOverrun with literals of its run counted, after it had written
\* three bytes or more
OverrunOnReusedDict ==
    /\ calls = 2
    /\ epc = "done"
    /\ err = "OutputOverrun"
    /\ lit_len >= 1
    /\ out_pos >= 3

=============================================================================
